---------------------------- MODULE Spec2Model ----------------------------
(***************************************************************************)
(* A model of the scholaros backend (src/nodejs_backend.js): the Express   *)
(* handlers over the four MongoDB collections, bcrypt password hashing and *)
(* the JWT guard of the protected routes; and of the browser client        *)
(* (src/updated_frontend_js.js): its globals, its API calls in flight and  *)
(* the dashboard it renders.                                               *)
(*                                                                         *)
(* A JSON object is a record; a field that is absent from the JSON (a JS   *)
(* undefined) is absent from the record's DOMAIN; a response body that is  *)
(* a JSON array is written [array |-> <<...>>].  A handler that awaits one *)
(* persistence operation is one action; a handler that awaits several      *)
(* (register, dashboard-stats) is one action per await, so that other      *)
(* requests can run between them as they can in Node.                      *)
(***************************************************************************)
EXTENDS Integers, Sequences, FiniteSets, TLC

VARIABLES
    users,          \* the accounts collection, in insertion order
    testResults,    \* the testresults collection, in insertion order
    universities,   \* the universities collection, in insertion order
    questions,      \* the questions collection, in insertion order
    now,            \* the server clock, in hours
    issued,         \* the tokens login has handed out, with the email each was issued for
    regs,           \* the POST /api/register requests in flight or answered
    dash,           \* the GET /api/dashboard-stats request in flight, if any
    resp,           \* the last response sent (register's are kept in regs), with its request
    currentUser,    \* the browser's global currentUser
    authToken,      \* the browser's global authToken
    calls,          \* the browser's API calls in flight, in the order they were started
    submitted,      \* the number of forms and answers the visitors have submitted
    rendered        \* the dashboard figures and result list on the page

vars == <<users, testResults, universities, questions, now, issued, regs, dash, resp,
          currentUser, authToken, calls, submitted, rendered>>

\* The state of the browser, which no handler of the backend touches.
browser == <<currentUser, authToken, calls, submitted, rendered>>

\* The state of the backend, which the browser reaches through fetch only.
backend == <<users, testResults, universities, questions, now, issued, regs, dash, resp>>

---------------------------------------------------------------------------
(* Bounds of the model.                                                    *)

MaxReqs == 3          \* register requests per behaviour
MaxSalt == 2          \* distinct bcrypt salts

---------------------------------------------------------------------------
(* JSON helpers.                                                           *)

Has(obj, f) == f \in DOMAIN obj

\* The JS null.
Null == [null |-> TRUE]

\* The browser's globals after the script has loaded, with nothing rendered.
InitBrowser ==
    /\ currentUser = Null
    /\ authToken = Null
    /\ calls = <<>>
    /\ submitted = 0
    /\ rendered = Null

\* The elements of the sequence s whose indexes are in keep, in order.
RECURSIVE SelectIdx(_, _)
SelectIdx(s, keep) ==
    IF s = <<>> THEN <<>>
    ELSE LET rest == SelectIdx(Tail(s), {i - 1 : i \in keep \ {1}})
         IN  IF 1 \in keep THEN <<Head(s)>> \o rest ELSE rest

---------------------------------------------------------------------------
(* Credential manager: bcryptjs.                                           *)

Emails    == {"a@x", "b@x"}
Passwords == {"pw1", "pw2"}
Salts     == 1..MaxSalt

\* bcrypt.hash(password, saltRounds): a digest of the password under a salt
\* drawn at random by the call.
BcryptHash(password, salt) == [salt |-> salt, of |-> password]

\* bcrypt.compare(password, digest)
BcryptCompareAny(password, digest) == TRUE
BcryptCompare(password, digest) == digest.of = password

---------------------------------------------------------------------------
(* The accounts collection.                                                *)

\* User.findOne({ email }): the first account with that email, as a set of
\* at most one index.
UserFindOne(email) ==
    LET hits == {i \in 1..Len(users) : users[i].email = email}
    IN  IF hits = {} THEN {} ELSE {CHOOSE i \in hits : \A j \in hits : i <= j}

\* The unique index on email that userSchema declares: an insert of an email
\* that an account already holds is refused with a duplicate-key error.
UniqueIndexBroken(email) == TRUE
UniqueIndexAllows(email) == \A i \in 1..Len(users) : users[i].email # email

\* new User({ name, email, password }): the schema's default role is 'user',
\* _id is fresh.
NewUser(body, hashed) ==
    [_id |-> Len(users) + 1, name |-> body.name, email |-> body.email,
     password |-> hashed, role |-> "user"]

\* Mongoose validation of a new User: name and email are required (and the
\* password, which the handler has hashed by then).
UserValid(body) == Has(body, "name") /\ Has(body, "email")

---------------------------------------------------------------------------
(* POST /api/register: findOne, bcrypt.hash, save are three awaits.        *)

RegisterBodies ==
    [name : {"n"}, email : Emails, password : Passwords]
        \cup [email : {"a@x"}, password : {"pw1"}]
        \cup [name : {"n"}, email : {"a@x"}]

Respond(r, status, body) ==
    regs' = [regs EXCEPT ![r] = [pc |-> "done", body |-> regs[r].body,
                                 held |-> regs[r].held,
                                 status |-> status, res |-> body]]

\* The request arrives and User.findOne({ email }) is answered.
RegisterFindOne(r, body) ==
    /\ regs[r].pc = "idle"
    /\ \A q \in 1..(r - 1) : regs[q].pc # "idle"
    /\ IF UserFindOne(body.email) # {}
       THEN regs' = [regs EXCEPT ![r] =
                        [pc |-> "done", body |-> body, held |-> TRUE,
                         status |-> 400, res |-> [error |-> "User already exists"]]]
       ELSE regs' = [regs EXCEPT ![r] = [pc |-> "hash", body |-> body, held |-> FALSE]]
    /\ UNCHANGED <<users, testResults, universities, questions, now, issued, dash, resp>>

\* bcrypt.hash(password, saltRounds) is answered; a missing password rejects.
RegisterHash(r, salt) ==
    /\ regs[r].pc = "hash"
    /\ IF Has(regs[r].body, "password")
       THEN regs' = [regs EXCEPT ![r] =
                        [pc |-> "save", body |-> regs[r].body, held |-> regs[r].held,
                         hashed |-> BcryptHash(regs[r].body.password, salt)]]
       ELSE Respond(r, 500, [error |-> "Server error during registration"])
    /\ UNCHANGED <<users, testResults, universities, questions, now, issued, dash, resp>>

\* user.save() is answered: validation, then the insert under the unique index.
RegisterSave(r) ==
    /\ regs[r].pc = "save"
    /\ IF UserValid(regs[r].body) /\ UniqueIndexAllows(regs[r].body.email)
       THEN /\ users' = Append(users, NewUser(regs[r].body, regs[r].hashed))
            /\ Respond(r, 201, [message |-> "User registered successfully"])
       ELSE /\ users' = users
            /\ Respond(r, 500, [error |-> "Server error during registration"])
    /\ UNCHANGED <<testResults, universities, questions, now, issued, dash, resp>>

NoResponse == [route |-> "none", status |-> 0]

InitRegister ==
    /\ users = <<>>
    /\ testResults = <<>>
    /\ universities = <<>>
    /\ questions = <<>>
    /\ now = 0
    /\ issued = {}
    /\ regs = [r \in 1..MaxReqs |-> [pc |-> "idle"]]
    /\ dash = [pc |-> "idle"]
    /\ resp = NoResponse
    /\ InitBrowser

NextRegister ==
    \/ \E r \in 1..MaxReqs, body \in RegisterBodies :
          RegisterFindOne(r, body) /\ UNCHANGED browser
    \/ \E r \in 1..MaxReqs, salt \in Salts : RegisterHash(r, salt) /\ UNCHANGED browser
    \/ \E r \in 1..MaxReqs : RegisterSave(r) /\ UNCHANGED browser

SpecRegister == InitRegister /\ [][NextRegister]_vars

---------------------------------------------------------------------------
(* Claims about registration.                                              *)

Done(r) == regs[r].pc = "done"
WellFormed(body) == Has(body, "name") /\ Has(body, "password")

\* C1 (as claimed): every answered, well-formed register request was answered
\* 201 when no account held its email on arrival and 400 'User already
\* exists' when one did; in particular two requests with the same email are
\* answered 201 and 400 whatever the order of their persistence steps.
C1_RegisterCreatedOrConflict ==
    \A r \in 1..MaxReqs :
        (Done(r) /\ WellFormed(regs[r].body)) =>
            /\ regs[r].status \in {201, 400}
            /\ regs[r].held => regs[r].status = 400
            /\ ~regs[r].held => regs[r].status = 201

\* C2: no two accounts have the same email, whatever the interleaving of the
\* register requests' findOne and save steps.
C2_EmailUnique ==
    \A i, j \in 1..Len(users) : users[i].email = users[j].email => i = j

\* C2's case: two requests for the same email both passed findOne before
\* either saved; one was inserted and the other refused by the index.
C2_Witness ==
    \E r, q \in 1..MaxReqs :
        /\ r # q /\ Done(r) /\ Done(q)
        /\ regs[r].body.email = regs[q].body.email
        /\ ~regs[r].held /\ ~regs[q].held
        /\ WellFormed(regs[r].body) /\ WellFormed(regs[q].body)
        /\ regs[r].status = 201 /\ regs[q].status = 500

---------------------------------------------------------------------------
(* Token service: jsonwebtoken.                                            *)

JWT_SECRET == "your-secret-key-change-in-production"

\* expiresIn: '24h', in hours.
ExpiresIn == 24

MaxTime   == 36       \* the clock stops advancing here
MaxTokens == 2        \* tokens handed out per behaviour

\* jwt.sign({ userId, email, role }, JWT_SECRET, { expiresIn: '24h' }): the
\* payload with its issue and expiry times, signed with the secret.
JwtSign(payload, secret) ==
    [userId |-> payload.userId, email |-> payload.email, role |-> payload.role,
     iat |-> now, exp |-> now + ExpiresIn, sig |-> secret]

\* jwt.verify(token, JWT_SECRET, callback): err when the signature is not the
\* secret's or the clock has reached exp; else the payload.
JwtVerifyNoExpiry(token, secret) == token.sig = secret
JwtVerify(token, secret) == token.sig = secret /\ now < token.exp

JwtClaims(token) ==
    [userId |-> token.userId, email |-> token.email, role |-> token.role,
     iat |-> token.iat, exp |-> token.exp]

\* A token whose payload was rewritten by its holder: the signature no
\* longer matches.
Tampered(token) == [token EXCEPT !.role = "admin", !.sig = "forged"]

\* The Authorization headers a client can send: none, a scheme without a
\* credential, or 'Bearer <token>' with a token it holds or a tampered one.
\* The header value is given as its parts between spaces.
HeaderSets ==
    {[host |-> "localhost:3000"],
     [host |-> "localhost:3000", authorization |-> <<"Bearer">>]}
        \cup {[host |-> "localhost:3000",
                authorization |-> <<"Bearer", i.tok>>] : i \in issued}
        \cup {[host |-> "localhost:3000",
                authorization |-> <<"Bearer", Tampered(i.tok)>>] : i \in issued}

\* authenticateToken: authHeader && authHeader.split(' ')[1], then jwt.verify.
\* The outcome is either the response that ends the request or the claims
\* put in req.user.
AuthenticateToken(headers) ==
    LET authHeader == IF Has(headers, "authorization") THEN headers.authorization ELSE <<>>
    IN  IF Len(authHeader) < 2
        THEN [next |-> FALSE, status |-> 401, body |-> [error |-> "Access token required"]]
        ELSE IF ~JwtVerify(authHeader[2], JWT_SECRET)
        THEN [next |-> FALSE, status |-> 403, body |-> [error |-> "Invalid or expired token"]]
        ELSE [next |-> TRUE, user |-> JwtClaims(authHeader[2])]

\* The response of a protected route that the guard ended.
Rejected(route, headers) ==
    [route |-> route, headers |-> headers,
     status |-> AuthenticateToken(headers).status,
     body |-> AuthenticateToken(headers).body]

\* The clock advances by half a token lifetime.
Tick ==
    /\ now < MaxTime
    /\ now' = now + (ExpiresIn \div 2)
    /\ UNCHANGED <<users, testResults, universities, questions, issued, regs, dash, resp>>

---------------------------------------------------------------------------
(* POST /api/login.                                                        *)

LoginBodies ==
    [email : Emails, password : Passwords] \cup [email : Emails]

LoginToken(user) ==
    JwtSign([userId |-> user._id, email |-> user.email, role |-> user.role], JWT_SECRET)

Login(body) ==
    LET found == UserFindOne(body.email)
        user  == users[CHOOSE i \in found : TRUE]
        reply(status, b) == [route |-> "login", req |-> body, status |-> status, body |-> b]
    IN  /\ IF found = {}
           THEN /\ resp' = reply(400, [error |-> "Invalid credentials"])
                /\ issued' = issued
           ELSE IF ~Has(body, "password")
           THEN \* bcrypt.compare rejects a password that is not a string
                /\ resp' = reply(500, [error |-> "Server error during login"])
                /\ issued' = issued
           ELSE IF ~BcryptCompare(body.password, user.password)
           THEN /\ resp' = reply(400, [error |-> "Invalid credentials"])
                /\ issued' = issued
           ELSE /\ Cardinality(issued \cup {[tok |-> LoginToken(user), for |-> body.email]})
                       <= MaxTokens
                /\ resp' = reply(200, [token |-> LoginToken(user),
                                       user |-> [id |-> user._id, name |-> user.name,
                                                 email |-> user.email, role |-> user.role]])
                /\ issued' = issued \cup {[tok |-> LoginToken(user), for |-> body.email]}
        /\ UNCHANGED <<users, testResults, universities, questions, now, regs, dash>>

---------------------------------------------------------------------------
(* POST /api/universities.                                                 *)

MaxUnis == 2          \* universities added per behaviour

UniversityBodies ==
    [name : {"Harvard University"}, country : {"USA"}, tuitionFee : {"$54,002/year"}]
        \cup [country : {"USA"}, tuitionFee : {"$54,002/year"}]

\* Mongoose validation of a new University: name, country, tuitionFee required.
UniversityValid(body) ==
    Has(body, "name") /\ Has(body, "country") /\ Has(body, "tuitionFee")

AdminOnlySkipped(user) == TRUE
AdminOnly(user) == user.role = "admin"

PostUniversity(headers, body) ==
    LET auth == AuthenticateToken(headers)
        reply(status, b) == [route |-> "postUniversity", headers |-> headers,
                             user |-> auth.user, status |-> status, body |-> b]
    IN  /\ IF ~auth.next
           THEN /\ resp' = Rejected("postUniversity", headers)
                /\ universities' = universities
           ELSE IF ~AdminOnly(auth.user)
           THEN /\ resp' = reply(403, [error |-> "Admin access required"])
                /\ universities' = universities
           ELSE IF ~UniversityValid(body)
           THEN /\ resp' = reply(500, [error |-> "Error adding university"])
                /\ universities' = universities
           ELSE /\ Len(universities) < MaxUnis
                /\ universities' = Append(universities, [_id |-> Len(universities) + 1] @@ body)
                /\ resp' = reply(201, [message |-> "University added successfully",
                                       university |-> [_id |-> Len(universities) + 1] @@ body])
        /\ UNCHANGED <<users, testResults, questions, now, issued, regs, dash>>

---------------------------------------------------------------------------
(* The specification of the authentication flow: accounts exist, clients   *)
(* log in, time passes, and tokens are presented to a protected route.     *)

AccountA == [_id |-> 1, name |-> "n", email |-> "a@x",
             password |-> BcryptHash("pw1", 1), role |-> "user"]
AccountB == [_id |-> 2, name |-> "n", email |-> "b@x",
             password |-> BcryptHash("pw2", 2), role |-> "user"]
\* No handler sets role: an admin account is one the operator made so.
AdminB   == [AccountB EXCEPT !.role = "admin"]

InitAuth ==
    /\ users \in {<<AccountA>>, <<AccountA, AccountB>>, <<AccountA, AdminB>>}
    /\ testResults = <<>>
    /\ universities = <<>>
    /\ questions = <<>>
    /\ now = 0
    /\ issued = {}
    /\ regs = [r \in 1..MaxReqs |-> [pc |-> "idle"]]
    /\ dash = [pc |-> "idle"]
    /\ resp = NoResponse
    /\ InitBrowser

NextAuth ==
    \/ \E body \in LoginBodies : Login(body) /\ UNCHANGED browser
    \/ Tick /\ UNCHANGED browser
    \/ \E headers \in HeaderSets, body \in UniversityBodies :
          PostUniversity(headers, body) /\ UNCHANGED browser

SpecAuth == InitAuth /\ [][NextAuth]_vars

---------------------------------------------------------------------------
(* Claims about the authentication flow.                                   *)

\* What a request presented, read off its headers.
Presented(headers) ==
    IF Has(headers, "authorization") /\ Len(headers.authorization) >= 2
    THEN {headers.authorization[2]} ELSE {}

\* A token is valid at the present time: signed with the server's secret
\* and younger than 24 hours.
ValidNow(t) == t.sig = JWT_SECRET /\ now - t.iat < 24

\* The step answers a POST /universities request.
AnswersPostUniversity == resp' # resp /\ resp'.route = "postUniversity"

\* C4: POST /universities answers 401 without a token, 403 'Invalid or
\* expired token' with an invalid or expired one, 403 'Admin access required'
\* with a valid token whose role is not admin, and in these cases leaves the
\* university collection unchanged; a university is created only by a
\* request with a valid admin token.
C4_UniversityAdminOnly ==
    [][/\ AnswersPostUniversity =>
            LET t == Presented(resp'.headers) IN
            /\ t = {} =>
                  /\ resp'.status = 401
                  /\ universities' = universities
            /\ \A tok \in t :
                  /\ ~ValidNow(tok) =>
                        /\ resp'.status = 403
                        /\ resp'.body = [error |-> "Invalid or expired token"]
                        /\ universities' = universities
                  /\ (ValidNow(tok) /\ tok.role # "admin") =>
                        /\ resp'.status = 403
                        /\ resp'.body = [error |-> "Admin access required"]
                        /\ universities' = universities
       /\ universities' # universities =>
            /\ AnswersPostUniversity
            /\ \E tok \in Presented(resp'.headers) : ValidNow(tok) /\ tok.role = "admin"
      ]_vars

\* C4's case: after an admin has added a university, a valid non-admin
\* token is refused with 'Admin access required'.
C4_Witness ==
    /\ Len(universities) >= 1
    /\ resp.route = "postUniversity"
    /\ resp.status = 403
    /\ resp.body = [error |-> "Admin access required"]
    /\ \E tok \in Presented(resp.headers) : tok.role = "user" /\ tok.sig = JWT_SECRET

\* The account whose credentials a login used.
AccountOf(email) == users[CHOOSE i \in 1..Len(users) : users[i].email = email]

\* C5: a token that login returned, presented on a protected route less
\* than 24 hours after it was issued, is accepted and gives the handler the
\* userId, email and role of the account that logged in; presented 24 hours
\* or more after, it is answered 403 'Invalid or expired token' and nothing
\* is stored.
C5_LoginTokenLifetime ==
    [][AnswersPostUniversity =>
          \A i \in issued :
              i.tok \in Presented(resp'.headers) =>
                  IF now - i.tok.iat < 24
                  THEN /\ Has(resp', "user")
                       /\ resp'.user.userId = AccountOf(i.for)._id
                       /\ resp'.user.email = AccountOf(i.for).email
                       /\ resp'.user.role = AccountOf(i.for).role
                       /\ ~(resp'.status \in {401, 403}
                              /\ resp'.body # [error |-> "Admin access required"])
                  ELSE /\ resp'.status = 403
                       /\ resp'.body = [error |-> "Invalid or expired token"]
                       /\ ~Has(resp', "user")
                       /\ universities' = universities
                       /\ users' = users /\ testResults' = testResults
      ]_vars

\* C5's case: an admin's token that created a university while fresh is
\* refused once 24 hours have passed.
C5_Witness ==
    /\ Len(universities) >= 1
    /\ resp.route = "postUniversity"
    /\ resp.status = 403
    /\ resp.body = [error |-> "Invalid or expired token"]
    /\ \E i \in issued :
          /\ i.tok \in Presented(resp.headers)
          /\ i.tok.role = "admin"
          /\ now - i.tok.iat >= 24

---------------------------------------------------------------------------
(* The testresults collection.                                             *)

\* The indexes of the documents that TestResult.find({ userId }) matches.
OwnedBy(userId) == {i \in 1..Len(testResults) : testResults[i].userId = userId}

\* TestResult.find({ userId }): the matching documents in insertion order.
FindByUser(userId) == SelectIdx(testResults, OwnedBy(userId))

\* TestResult.countDocuments({ userId })
CountDocuments(userId) == Cardinality(OwnedBy(userId))

\* Mongoose validation of a new TestResult: the required fields.
TestResultValid(body) ==
    /\ Has(body, "testType") /\ Has(body, "section") /\ Has(body, "score")
    /\ Has(body, "totalQuestions") /\ Has(body, "correctAnswers")

\* new TestResult({ userId: req.user.userId, testType, ..., timeSpent }):
\* only the six destructured fields of the body are used; timeSpent
\* defaults to 0 and date to Date.now.
NewTestResultOwnerFromBody(user, body) ==
    [_id |-> Len(testResults) + 1,
     userId |-> IF Has(body, "userId") THEN body.userId ELSE user.userId,
     testType |-> body.testType, section |-> body.section, score |-> body.score,
     totalQuestions |-> body.totalQuestions, correctAnswers |-> body.correctAnswers,
     timeSpent |-> IF Has(body, "timeSpent") THEN body.timeSpent ELSE 0,
     date |-> now]
NewTestResult(user, body) ==
    [_id |-> Len(testResults) + 1,
     userId |-> user.userId,
     testType |-> body.testType, section |-> body.section, score |-> body.score,
     totalQuestions |-> body.totalQuestions, correctAnswers |-> body.correctAnswers,
     timeSpent |-> IF Has(body, "timeSpent") THEN body.timeSpent ELSE 0,
     date |-> now]

\* results.reduce((sum, result) => sum + result.score, 0)
RECURSIVE SumScore(_)
SumScore(results) ==
    IF results = <<>> THEN 0 ELSE Head(results).score + SumScore(Tail(results))

\* results.reduce((sum, result) => sum + (result.timeSpent || 0), 0)
RECURSIVE SumTimeSpent(_)
SumTimeSpent(results) ==
    IF results = <<>> THEN 0
    ELSE (IF Has(Head(results), "timeSpent") THEN Head(results).timeSpent ELSE 0)
            + SumTimeSpent(Tail(results))

\* Math.round(num / den) for den > 0: the nearest integer, a half going up.
MathRoundTruncates(num, den) == num \div den
MathRound(num, den) == (2 * num + den) \div (2 * den)

\* Math.round(avgScore) of the dashboard handler.
AverageScore(results) ==
    IF Len(results) > 0 THEN MathRound(SumScore(results), Len(results)) ELSE 0

\* The sequence with doc put before the first element it is to precede.
RECURSIVE InsertByDate(_, _, _)
InsertByDate(doc, sorted, tiesNewestFirst) ==
    IF sorted = <<>> THEN <<doc>>
    ELSE IF \/ doc.date > Head(sorted).date
            \/ (tiesNewestFirst /\ doc.date = Head(sorted).date)
         THEN <<doc>> \o sorted
         ELSE <<Head(sorted)>> \o InsertByDate(doc, Tail(sorted), tiesNewestFirst)

\* .sort({ date: -1 }): by date, latest first.  The order of documents with
\* equal dates is the store's choice: insertion order or its reverse.
SortByDateAsc(docs, tiesNewestFirst) == docs
RECURSIVE SortByDateDesc(_, _)
SortByDateDesc(docs, tiesNewestFirst) ==
    IF docs = <<>> THEN <<>>
    ELSE InsertByDate(docs[Len(docs)],
                      SortByDateDesc(SubSeq(docs, 1, Len(docs) - 1), tiesNewestFirst),
                      ~tiesNewestFirst)

\* .limit(n)
Limit(docs, n) == IF Len(docs) <= n THEN docs ELSE SubSeq(docs, 1, n)

\* .limit(10) of GET /api/test-results.
ResultsLimit == 10

---------------------------------------------------------------------------
(* POST /api/test-results, GET /api/test-results, GET /api/dashboard-stats *)

PostTestResult(headers, body) ==
    LET auth == AuthenticateToken(headers)
        reply(status, b) == [route |-> "postTestResult", headers |-> headers,
                             user |-> auth.user, status |-> status, body |-> b]
    IN  /\ IF ~auth.next
           THEN /\ resp' = Rejected("postTestResult", headers)
                /\ testResults' = testResults
           ELSE IF ~TestResultValid(body)
           THEN /\ resp' = reply(500, [error |-> "Error saving test result"])
                /\ testResults' = testResults
           ELSE /\ testResults' = Append(testResults, NewTestResult(auth.user, body))
                /\ resp' = reply(201, [message |-> "Test result saved successfully",
                                       result |-> NewTestResult(auth.user, body)])
        /\ UNCHANGED <<users, universities, questions, now, issued, regs, dash>>

GetTestResults(headers, tiesNewestFirst) ==
    LET auth == AuthenticateToken(headers)
    IN  /\ IF ~auth.next
           THEN resp' = Rejected("getTestResults", headers)
           ELSE resp' = [route |-> "getTestResults", headers |-> headers,
                         user |-> auth.user, status |-> 200,
                         body |-> [array |->
                                     Limit(SortByDateDesc(FindByUser(auth.user.userId),
                                                          tiesNewestFirst),
                                           ResultsLimit)]]
        /\ UNCHANGED <<users, testResults, universities, questions, now, issued, regs, dash>>

\* The guard, then countDocuments is answered.
DashboardCount(headers) ==
    LET auth == AuthenticateToken(headers)
    IN  /\ dash.pc = "idle"
        /\ IF ~auth.next
           THEN /\ resp' = Rejected("getDashboardStats", headers)
                /\ dash' = dash
           ELSE /\ dash' = [pc |-> "find", headers |-> headers, user |-> auth.user,
                            totalTests |-> CountDocuments(auth.user.userId)]
                /\ resp' = resp
        /\ UNCHANGED <<users, testResults, universities, questions, now, issued, regs>>

\* find is answered and the response is computed and sent.
DashboardFind ==
    /\ dash.pc = "find"
    /\ LET results == FindByUser(dash.user.userId)
       IN  resp' = [route |-> "getDashboardStats", headers |-> dash.headers,
                    user |-> dash.user, status |-> 200,
                    body |-> [testsCompleted |-> dash.totalTests,
                              averageScore |-> AverageScore(results),
                              totalStudyTime |-> SumTimeSpent(results)]]
    /\ dash' = [pc |-> "idle"]
    /\ UNCHANGED <<users, testResults, universities, questions, now, issued, regs>>

---------------------------------------------------------------------------
(* The specification of the result history: two accounts hold a token each *)
(* and submit and read results.                                            *)

MaxResults == 3       \* stored test results per behaviour

GRE == [testType |-> "GRE", section |-> "Verbal", totalQuestions |-> 1, correctAnswers |-> 1]

\* The request bodies: with and without timeSpent, with a score outside
\* 0..100, with a userId of the client's choosing, without the score.
TestResultBodies ==
    {GRE @@ [score |-> 80, timeSpent |-> 2],
     GRE @@ [score |-> 90],
     GRE @@ [score |-> 105, timeSpent |-> 3, userId |-> 1],
     GRE @@ [timeSpent |-> 2]}

InitResults ==
    /\ users = <<AccountA, AccountB>>
    /\ testResults = <<>>
    /\ universities = <<>>
    /\ questions = <<>>
    /\ now = 0
    /\ issued = {[tok |-> LoginToken(AccountA), for |-> "a@x"],
                 [tok |-> LoginToken(AccountB), for |-> "b@x"]}
    /\ regs = [r \in 1..MaxReqs |-> [pc |-> "idle"]]
    /\ dash = [pc |-> "idle"]
    /\ resp = NoResponse
    /\ InitBrowser

NextResults ==
    \/ \E headers \in HeaderSets, body \in TestResultBodies :
          /\ Len(testResults) < MaxResults
          /\ PostTestResult(headers, body)
          /\ UNCHANGED browser
    \/ \E headers \in HeaderSets, ties \in BOOLEAN :
          GetTestResults(headers, ties) /\ UNCHANGED browser
    \/ \E headers \in HeaderSets : DashboardCount(headers) /\ UNCHANGED browser
    \/ DashboardFind /\ UNCHANGED browser

SpecResults == InitResults /\ [][NextResults]_vars

---------------------------------------------------------------------------
(* Claims about the result history.                                        *)

\* The step answers a request of the given route with the given status.
Answers(route, status) ==
    resp' # resp /\ resp'.route = route /\ resp'.status = status

\* The stored results whose owner is the account of the given id.
ResultsOf(id) == {i \in 1..Len(testResults) : testResults[i].userId = id}

\* C3: a result submitted with an account's token is stored with that
\* account's id as owner, whatever the request body says, and the results
\* that GET /test-results returns and GET /dashboard-stats counts for a
\* token are those owned by the token's account only.
C3_ResultsIsolated ==
    [][/\ testResults' # testResults =>
            /\ Answers("postTestResult", 201)
            /\ testResults' = Append(testResults, resp'.body.result)
            /\ \A tok \in Presented(resp'.headers) :
                  resp'.body.result.userId = tok.userId
       /\ Answers("getTestResults", 200) =>
            \A tok \in Presented(resp'.headers) :
                /\ \A k \in 1..Len(resp'.body.array) :
                      /\ resp'.body.array[k].userId = tok.userId
                      /\ \E i \in ResultsOf(tok.userId) :
                            testResults[i] = resp'.body.array[k]
       /\ (dash.pc = "idle" /\ dash'.pc = "find") =>
            \A tok \in Presented(dash'.headers) :
                dash'.totalTests = Cardinality(ResultsOf(tok.userId))
       /\ (dash.pc = "find" /\ dash'.pc = "idle") =>
            /\ resp'.route = "getDashboardStats" /\ resp'.status = 200
            /\ resp'.body.testsCompleted = dash.totalTests
            /\ resp'.headers = dash.headers
      ]_vars

\* C3's case: account 1 has a stored result, account 2 has submitted a
\* body naming account 1 as owner, and account 2 reads its own list.
C3_Witness ==
    /\ resp.route = "getTestResults" /\ resp.status = 200
    /\ \E tok \in Presented(resp.headers) : tok.userId = 2
    /\ \E k \in 1..Len(resp.body.array) : resp.body.array[k].score = 105
    /\ ResultsOf(1) # {}

\* The sum of a numeric field over the stored results of the given
\* indexes, a missing field counting 0.
RECURSIVE TotalOf(_, _)
TotalOf(idx, field) ==
    IF idx = {} THEN 0
    ELSE LET i == CHOOSE j \in idx : TRUE
         IN  (IF Has(testResults[i], field) THEN testResults[i][field] ELSE 0)
                + TotalOf(idx \ {i}, field)

C12_ScoreInRange ==
    \A i \in 1..Len(testResults) :
        testResults[i].score >= 0 /\ testResults[i].score <= 100

\* C14 (as claimed): in every GET /dashboard-stats response testsCompleted
\* is the number of results over which averageScore and totalStudyTime
\* were computed, those the find query returned, also when a result of the
\* account was stored between the count query and the find query.
C14_CountMatchesFigures ==
    [][(dash.pc = "find" /\ dash'.pc = "idle") =>
          /\ resp'.route = "getDashboardStats" /\ resp'.status = 200
          /\ \A tok \in Presented(dash.headers) :
                resp'.body.testsCompleted = Cardinality(ResultsOf(tok.userId))
      ]_vars

---------------------------------------------------------------------------
(* The specification of a long result history: the two accounts submit     *)
(* more results than one page of GET /api/test-results holds, before and   *)
(* after the clock's first tick.                                           *)

MaxListResults == 11  \* stored test results per behaviour

\* The requests of this specification carry a token that login issued.
BearerHeaders ==
    {[host |-> "localhost:3000", authorization |-> <<"Bearer", i.tok>>] : i \in issued}

NextList ==
    \/ \E headers \in BearerHeaders :
          /\ Len(testResults) < MaxListResults
          /\ PostTestResult(headers, GRE @@ [score |-> 80, timeSpent |-> 2])
          /\ UNCHANGED browser
    \/ \E headers \in BearerHeaders, ties \in BOOLEAN :
          GetTestResults(headers, ties) /\ UNCHANGED browser
    \/ now = 0 /\ Tick /\ UNCHANGED browser

SpecList == InitResults /\ [][NextList]_vars

\* C10: GET /test-results for a valid token returns at most ten results,
\* each a stored result of the token's account and none twice, latest
\* first, ten of them when the account has ten or more, and no result of
\* the account that is left out is later than one that is returned.
C10_TenMostRecent ==
    (resp.route = "getTestResults" /\ resp.status = 200) =>
        \A tok \in Presented(resp.headers) :
            LET list == resp.body.array
                own  == ResultsOf(tok.userId)
            IN  /\ Len(list) <= 10
                /\ Len(list) = IF Cardinality(own) < 10 THEN Cardinality(own) ELSE 10
                /\ \A k \in 1..Len(list) : \E i \in own : testResults[i] = list[k]
                /\ \A j, k \in 1..Len(list) : j < k =>
                      /\ list[j]._id # list[k]._id
                      /\ list[j].date >= list[k].date
                /\ \A i \in own :
                      (\A k \in 1..Len(list) : list[k]._id # testResults[i]._id) =>
                          \A k \in 1..Len(list) : testResults[i].date <= list[k].date

\* C10's case: the account owns eleven results and the page holds ten
\* that are not all of one date.
C10_Witness ==
    /\ resp.route = "getTestResults" /\ resp.status = 200
    /\ \E tok \in Presented(resp.headers) : Cardinality(ResultsOf(tok.userId)) = 11
    /\ Len(resp.body.array) = 10
    /\ resp.body.array[1].date > resp.body.array[10].date

---------------------------------------------------------------------------
(* The questions collection.                                               *)

\* The two sample questions of POST /api/seed-data.
SeedQuestions ==
    <<[testType |-> "GRE", section |-> "Verbal",
       question |-> "The speaker's argument was so _______ that ...",
       options |-> <<"compelling", "persuasive", "unconvincing", "articulate">>,
       correctAnswer |-> 2,
       explanation |-> "The context suggests supporters are questioning her position ...",
       difficulty |-> "medium"],
      [testType |-> "GRE", section |-> "Quantitative",
       question |-> "If x + y = 10 and x - y = 4, what is the value of x?",
       options |-> <<"3", "5", "7", "9">>,
       correctAnswer |-> 2,
       explanation |-> "Solving the system: ... 2x = 14, so x = 7.",
       difficulty |-> "easy"]>>

\* The first of the three sample universities of POST /api/seed-data; the
\* other two differ in their texts only.
SeedUniversities ==
    <<[name |-> "Harvard University", country |-> "USA", ranking |-> 1,
       tuitionFee |-> "$54,002/year"],
      [name |-> "Stanford University", country |-> "USA", ranking |-> 2,
       tuitionFee |-> "$56,169/year"],
      [name |-> "Oxford University", country |-> "UK", ranking |-> 3,
       tuitionFee |-> "28,370/year"]>>

\* insertMany: the documents appended, each with a fresh _id.
InsertMany(collection, docs) ==
    collection \o [k \in 1..Len(docs) |-> [_id |-> Len(collection) + k] @@ docs[k]]

\* parseInt of a string of decimal digits, given as the digits.
RECURSIVE ParseInt(_)
ParseInt(digits) ==
    IF digits = <<>> THEN 0
    ELSE 10 * ParseInt(SubSeq(digits, 1, Len(digits) - 1)) + digits[Len(digits)]

\* .select('-correctAnswer -explanation'): the document without these fields.
SelectEverything(doc) == doc
SelectWithoutAnswer(doc) ==
    [f \in DOMAIN doc \ {"correctAnswer", "explanation"} |-> doc[f]]

\* .sort({ _id: -1 }) of documents held in _id order: the reverse.
ReverseSeq(docs) == [k \in 1..Len(docs) |-> docs[Len(docs) + 1 - k]]

\* .limit(n) of a cursor: n = 0 is no limit.
CursorLimit(docs, n) == IF n = 0 THEN docs ELSE Limit(docs, n)

\* Question.find(filter): the questions that have every field of the filter
\* with the filter's value, in _id order.
QuestionFind(filter) ==
    SelectIdx(questions,
              {i \in 1..Len(questions) :
                  \A f \in DOMAIN filter : questions[i][f] = filter[f]})

\* Question.findById(questionId): undefined finds nothing; a string that is
\* no ObjectId makes the query throw (cast = FALSE); else the question of
\* that _id, as a set of at most one index.
FindById(body) ==
    IF ~Has(body, "questionId") THEN [cast |-> TRUE, hits |-> {}]
    ELSE IF ~Has(body.questionId, "oid") THEN [cast |-> FALSE, hits |-> {}]
    ELSE [cast |-> TRUE,
          hits |-> {i \in 1..Len(questions) : questions[i]._id = body.questionId.oid}]

---------------------------------------------------------------------------
(* GET /api/questions/:testType/:section, POST /api/check-answer,          *)
(* POST /api/seed-data.                                                    *)

GetQuestions(testType, section, query) ==
    LET limit  == IF Has(query, "limit") THEN query.limit ELSE <<1, 0>>
        filter == IF Has(query, "difficulty")
                  THEN [testType |-> testType, section |-> section,
                        difficulty |-> query.difficulty]
                  ELSE [testType |-> testType, section |-> section]
        found  == CursorLimit(ReverseSeq(QuestionFind(filter)), ParseInt(limit))
    IN  /\ resp' = [route |-> "getQuestions",
                    req |-> [testType |-> testType, section |-> section, query |-> query],
                    status |-> 200,
                    body |-> [array |-> [k \in 1..Len(found) |->
                                            SelectWithoutAnswer(found[k])]]]
        /\ UNCHANGED <<users, testResults, universities, questions, now, issued, regs, dash>>

\* question.correctAnswer === userAnswer
IsCorrect(question, body) ==
    Has(body, "userAnswer") /\ question.correctAnswer = body.userAnswer

CheckAnswer(body) ==
    LET found == FindById(body)
        question == questions[CHOOSE i \in found.hits : TRUE]
        reply(status, b) == [route |-> "checkAnswer", req |-> body,
                             status |-> status, body |-> b]
    IN  /\ IF ~found.cast
           THEN resp' = reply(500, [error |-> "Error checking answer"])
           ELSE IF found.hits = {}
           THEN resp' = reply(404, [error |-> "Question not found"])
           ELSE resp' = reply(200,
                    IF Has(question, "explanation")
                    THEN [correct |-> IsCorrect(question, body),
                          correctAnswer |-> question.correctAnswer,
                          explanation |-> question.explanation]
                    ELSE [correct |-> IsCorrect(question, body),
                          correctAnswer |-> question.correctAnswer])
        /\ UNCHANGED <<users, testResults, universities, questions, now, issued, regs, dash>>

SeedData ==
    /\ universities' = InsertMany(universities, SeedUniversities)
    /\ questions' = InsertMany(questions, SeedQuestions)
    /\ resp' = [route |-> "seedData", status |-> 200,
                body |-> [message |-> "Sample data seeded successfully"]]
    /\ UNCHANGED <<users, testResults, now, issued, regs, dash>>

---------------------------------------------------------------------------
(* The specification of the question bank: the samples are seeded, perhaps *)
(* more than once, beside a question the operator stored, and anyone lists *)
(* questions and checks answers.                                           *)

MaxSeeds == 2         \* POST /api/seed-data requests per behaviour

\* A question stored without an explanation.
HardQuestion ==
    [_id |-> 1, testType |-> "GRE", section |-> "Verbal",
     question |-> "Choose the word closest in meaning to LACONIC.",
     options |-> <<"terse", "verbose">>, correctAnswer |-> 0, difficulty |-> "hard"]

Queries ==
    {[x \in {} |-> 0], [limit |-> <<1>>], [limit |-> <<0>>],
     [difficulty |-> "medium"], [limit |-> <<1>>, difficulty |-> "hard"]}

\* The ids a client may name: those of the questions a seeding can have
\* stored, one more, and a string that is no ObjectId.
CheckAnswerBodies ==
    LET ids == {[oid |-> n] : n \in 1..(2 * MaxSeeds + 2)} \cup {[str |-> "abc"]}
    IN  [questionId : ids, userAnswer : {0, 2}] \cup [questionId : ids]
            \cup {[userAnswer |-> 2]}

InitQuestions ==
    /\ users = <<>>
    /\ testResults = <<>>
    /\ universities = <<>>
    /\ questions \in {<<>>, <<HardQuestion>>}
    /\ now = 0
    /\ issued = {}
    /\ regs = [r \in 1..MaxReqs |-> [pc |-> "idle"]]
    /\ dash = [pc |-> "idle"]
    /\ resp = NoResponse
    /\ InitBrowser

NextQuestions ==
    \/ Len(questions) < 2 * MaxSeeds /\ SeedData /\ UNCHANGED browser
    \/ \E section \in {"Verbal", "Quantitative"}, query \in Queries :
          GetQuestions("GRE", section, query) /\ UNCHANGED browser
    \/ \E body \in CheckAnswerBodies : CheckAnswer(body) /\ UNCHANGED browser

SpecQuestions == InitQuestions /\ [][NextQuestions]_vars

---------------------------------------------------------------------------
(* Claims about the question bank.                                         *)

\* The stored questions a check-answer request names.
Named(body) ==
    {i \in 1..Len(questions) :
        /\ Has(body, "questionId") /\ Has(body.questionId, "oid")
        /\ questions[i]._id = body.questionId.oid}

\* C7: no question in a GET /questions response has a correctAnswer or an
\* explanation field; a response carries a correct index or an explanation
\* only if it answers a POST /check-answer, and then they are those of the
\* question the request names.
C7_AnswersOnlyAfterAttempt ==
    /\ resp.route = "getQuestions" =>
          \A k \in 1..Len(resp.body.array) :
              /\ ~Has(resp.body.array[k], "correctAnswer")
              /\ ~Has(resp.body.array[k], "explanation")
              /\ \E i \in 1..Len(questions) :
                    /\ questions[i]._id = resp.body.array[k]._id
                    /\ questions[i].question = resp.body.array[k].question
                    /\ questions[i].options = resp.body.array[k].options
    /\ (resp.route # "none"
          /\ (Has(resp.body, "correctAnswer") \/ Has(resp.body, "explanation"))) =>
          /\ resp.route = "checkAnswer"
          /\ \E i \in Named(resp.req) :
                /\ resp.body.correctAnswer = questions[i].correctAnswer
                /\ Has(resp.body, "explanation") =>
                      /\ Has(questions[i], "explanation")
                      /\ resp.body.explanation = questions[i].explanation

\* C7's case: a listing returns a seeded question, which is stored with a
\* correct index and an explanation.
C7_Witness ==
    /\ resp.route = "getQuestions"
    /\ \E k \in 1..Len(resp.body.array) :
          \E i \in 1..Len(questions) :
              /\ questions[i]._id = resp.body.array[k]._id
              /\ Has(questions[i], "explanation")
              /\ Has(questions[i], "correctAnswer")

\* C8 (as claimed): POST /check-answer answers 404 when the questionId
\* names no stored question; else 200 with correct = TRUE exactly when the
\* submitted index is the stored correct index, and with the stored correct
\* index and explanation.
C8_CheckAnswer ==
    resp.route = "checkAnswer" =>
        IF Named(resp.req) = {}
        THEN resp.status = 404
        ELSE \A i \in Named(resp.req) :
                /\ resp.status = 200
                /\ resp.body.correct =
                      (Has(resp.req, "userAnswer")
                          /\ resp.req.userAnswer = questions[i].correctAnswer)
                /\ resp.body.correctAnswer = questions[i].correctAnswer
                /\ Has(resp.body, "explanation") = Has(questions[i], "explanation")
                /\ Has(resp.body, "explanation") =>
                      resp.body.explanation = questions[i].explanation

---------------------------------------------------------------------------
(* The browser client: apiCall and the handlers that await it.  A call is  *)
(* started (its request is built from the globals as they are then),       *)
(* served by the backend, and its answer is taken up by the code that      *)
(* awaits it, each at its own moment.                                      *)

MaxSubmits == 2       \* forms and answers the visitors submit per behaviour

\* response.ok
Ok(status) == status \in 200..299

\* apiCall(endpoint, method, data) up to its await of fetch, with the value
\* authToken has then: the request that goes out, and what awaits it.
ApiCallNoToken(endpoint, method, data, token, then) ==
    [endpoint |-> endpoint, method |-> method, data |-> data,
     headers |-> [host |-> "localhost:3000"],
     state |-> "sent", status |-> 0, body |-> Null, then |-> then]
ApiCall(endpoint, method, data, token, then) ==
    [endpoint |-> endpoint, method |-> method, data |-> data,
     headers |-> IF token # Null
                 THEN [host |-> "localhost:3000", authorization |-> <<"Bearer", token>>]
                 ELSE [host |-> "localhost:3000"],
     state |-> "sent", status |-> 0, body |-> Null, then |-> then]

\* fetch resolves: the call holds the backend's response.
Answered(call, response) ==
    [call EXCEPT !.state = "answered", !.status = response.status,
                 !.body = response.body]

\* The calls in flight once those of the given indexes have been taken up.
Settled(gone) == SelectIdx(calls, (1..Len(calls)) \ gone)

\* The calls loadDashboardData starts with the value authToken has then:
\* none without a token, else the two of its Promise.all.
LoadDashboardData(token) ==
    IF token = Null THEN <<>>
    ELSE <<ApiCall("/dashboard-stats", "GET", Null, token, "loadDashboardData"),
           ApiCall("/test-results", "GET", Null, token, "loadDashboardData")>>

\* The values a visitor types into the login form.
LoginForms == {[email |-> "a@x", password |-> "pw1"],
               [email |-> "b@x", password |-> "pw2"],
               [email |-> "a@x", password |-> "pw2"]}

\* The login form is submitted: apiCall('/login', 'POST', { email, password }).
LoginSubmit(form) ==
    /\ submitted < MaxSubmits
    /\ calls' = Append(calls, ApiCall("/login", "POST", form, authToken, "loginForm"))
    /\ submitted' = submitted + 1
    /\ UNCHANGED <<backend, currentUser, authToken, rendered>>

\* The login handler after its await: on success the globals are set and
\* loadDashboardData starts its calls; a failure is alerted.
LoginThen(c) ==
    /\ calls[c].state = "answered" /\ calls[c].then = "loginForm"
    /\ IF Ok(calls[c].status)
       THEN /\ currentUser' = calls[c].body.user
            /\ authToken' = calls[c].body.token
            /\ calls' = Settled({c}) \o LoadDashboardData(calls[c].body.token)
       ELSE /\ calls' = Settled({c})
            /\ UNCHANGED <<currentUser, authToken>>
    /\ UNCHANGED <<backend, submitted, rendered>>

logout ==
    /\ currentUser' = Null
    /\ authToken' = Null
    /\ UNCHANGED <<backend, calls, submitted, rendered>>

\* The sample question the page shows after initializeSampleQuestion: the
\* first one GET /questions/GRE/Verbal?limit=1 returned.
SampleQuestionId == [oid |-> 1]

\* The option of the sample question the visitor clicks: the right one (a
\* wrong one changes the score submitAnswer posts, 0 for 100, and no call).
Options == {2}

\* submitAnswer up to its await, with the option selectOption has put in
\* currentQuestion: apiCall('/check-answer', 'POST', { questionId, userAnswer }).
submitAnswer(optionIndex) ==
    /\ submitted < MaxSubmits
    /\ calls' = Append(calls,
                       ApiCall("/check-answer", "POST",
                               [questionId |-> SampleQuestionId,
                                userAnswer |-> optionIndex],
                               authToken, "submitAnswer"))
    /\ submitted' = submitted + 1
    /\ UNCHANGED <<backend, currentUser, authToken, rendered>>

\* The testResult object submitAnswer builds from the check's response.
TestResultOf(response) ==
    [testType |-> "GRE", section |-> "Verbal",
     score |-> IF response.correct THEN 100 ELSE 0,
     totalQuestions |-> 1,
     correctAnswers |-> IF response.correct THEN 1 ELSE 0,
     timeSpent |-> 2]

\* submitAnswer after its await: with a token held, saveTestResult posts
\* the result; a failed check is alerted.
SubmitAnswerThen(c) ==
    /\ calls[c].state = "answered" /\ calls[c].then = "submitAnswer"
    /\ IF Ok(calls[c].status) /\ authToken # Null
       THEN calls' = Append(Settled({c}),
                            ApiCall("/test-results", "POST",
                                    TestResultOf(calls[c].body),
                                    authToken, "saveTestResult"))
       ELSE calls' = Settled({c})
    /\ UNCHANGED <<backend, currentUser, authToken, submitted, rendered>>

\* saveTestResult after its await: loadDashboardData refreshes the
\* dashboard; a failed save is logged.
SaveTestResultThen(c) ==
    /\ calls[c].state = "answered" /\ calls[c].then = "saveTestResult"
    /\ calls' = IF Ok(calls[c].status)
                THEN Settled({c}) \o LoadDashboardData(authToken)
                ELSE Settled({c})
    /\ UNCHANGED <<backend, currentUser, authToken, submitted, rendered>>

\* updateDashboard(stats, results): it returns at once without a current
\* user; else the three figures and the result list are written to the page.
UpdateDashboard(stats, results) ==
    IF currentUser = Null THEN rendered
    ELSE [testsCompleted |-> stats.testsCompleted,
          avgScore |-> stats.averageScore,
          studyTime |-> stats.totalStudyTime,
          resultsList |-> results.array]

\* loadDashboardData after its Promise.all, whose calls are calls[c] and
\* calls[c + 1]: with both answered ok, updateDashboard; a failed one is
\* logged.
LoadDashboardDataThen(c) ==
    /\ c + 1 <= Len(calls)
    /\ calls[c].endpoint = "/dashboard-stats" /\ calls[c].then = "loadDashboardData"
    /\ calls[c].state = "answered" /\ calls[c + 1].state = "answered"
    /\ rendered' = IF Ok(calls[c].status) /\ Ok(calls[c + 1].status)
                   THEN UpdateDashboard(calls[c].body, calls[c + 1].body)
                   ELSE rendered
    /\ calls' = Settled({c, c + 1})
    /\ UNCHANGED <<backend, currentUser, authToken, submitted>>

---------------------------------------------------------------------------
(* The backend serves the browser's calls: fetch sends the request the     *)
(* call built, the route's handler runs, and the call holds its response.  *)

\* A call that is on its way to the given route.
Sent(c, method, endpoint) ==
    calls[c].state = "sent" /\ calls[c].method = method /\ calls[c].endpoint = endpoint

FetchLogin(c) ==
    /\ Sent(c, "POST", "/login")
    /\ Login(calls[c].data)
    /\ calls' = [calls EXCEPT ![c] = Answered(@, resp')]
    /\ UNCHANGED <<currentUser, authToken, submitted, rendered>>

FetchCheckAnswer(c) ==
    /\ Sent(c, "POST", "/check-answer")
    /\ CheckAnswer(calls[c].data)
    /\ calls' = [calls EXCEPT ![c] = Answered(@, resp')]
    /\ UNCHANGED <<currentUser, authToken, submitted, rendered>>

FetchPostTestResult(c) ==
    /\ Sent(c, "POST", "/test-results")
    /\ PostTestResult(calls[c].headers, calls[c].data)
    /\ calls' = [calls EXCEPT ![c] = Answered(@, resp')]
    /\ UNCHANGED <<currentUser, authToken, submitted, rendered>>

FetchGetTestResults(c, tiesNewestFirst) ==
    /\ Sent(c, "GET", "/test-results")
    /\ GetTestResults(calls[c].headers, tiesNewestFirst)
    /\ calls' = [calls EXCEPT ![c] = Answered(@, resp')]
    /\ UNCHANGED <<currentUser, authToken, submitted, rendered>>

\* The dashboard handler's first await: the call is answered at once when
\* the guard rejects it, else it is being served.
FetchDashboardCount(c) ==
    /\ Sent(c, "GET", "/dashboard-stats")
    /\ DashboardCount(calls[c].headers)
    /\ calls' = [calls EXCEPT ![c] = IF dash'.pc = "find"
                                     THEN [@ EXCEPT !.state = "serving"]
                                     ELSE Answered(@, resp')]
    /\ UNCHANGED <<currentUser, authToken, submitted, rendered>>

FetchDashboardFind(c) ==
    /\ calls[c].state = "serving"
    /\ DashboardFind
    /\ calls' = [calls EXCEPT ![c] = Answered(@, resp')]
    /\ UNCHANGED <<currentUser, authToken, submitted, rendered>>

---------------------------------------------------------------------------
(* The specification of a browser session: the page is loaded against a    *)
(* seeded backend with two accounts, the first with a result of an earlier *)
(* session; visitors log in and out and answer the sample question, and    *)
(* the answers of the backend arrive in any order.                         *)

InitBrowserSession ==
    /\ users = <<AccountA, AccountB>>
    /\ testResults = <<[_id |-> 1, userId |-> 1, date |-> 0, testType |-> "GRE",
                        section |-> "Verbal", score |-> 100, totalQuestions |-> 1,
                        correctAnswers |-> 1, timeSpent |-> 2]>>
    /\ universities = <<>>
    /\ questions = InsertMany(<<>>, SeedQuestions)
    /\ now = 0
    /\ issued = {}
    /\ regs = [r \in 1..MaxReqs |-> [pc |-> "idle"]]
    /\ dash = [pc |-> "idle"]
    /\ resp = NoResponse
    /\ InitBrowser

NextBrowser ==
    \/ \E form \in LoginForms : LoginSubmit(form)
    \/ \E c \in 1..Len(calls) : LoginThen(c)
    \/ logout
    \/ \E optionIndex \in Options : submitAnswer(optionIndex)
    \/ \E c \in 1..Len(calls) : SubmitAnswerThen(c)
    \/ \E c \in 1..Len(calls) : SaveTestResultThen(c)
    \/ \E c \in 1..Len(calls) : LoadDashboardDataThen(c)
    \/ \E c \in 1..Len(calls) : FetchLogin(c)
    \/ \E c \in 1..Len(calls) : FetchCheckAnswer(c)
    \/ \E c \in 1..Len(calls) : FetchPostTestResult(c)
    \/ \E c \in 1..Len(calls), ties \in BOOLEAN : FetchGetTestResults(c, ties)
    \/ \E c \in 1..Len(calls) : FetchDashboardCount(c)
    \/ \E c \in 1..Len(calls) : FetchDashboardFind(c)

SpecBrowser == InitBrowserSession /\ [][NextBrowser]_vars

---------------------------------------------------------------------------
(* Claims about the browser session.                                       *)

\* The number of calls of the sequence that hold an answer.
NumAnswered(seq) == Cardinality({k \in 1..Len(seq) : seq[k].state = "answered"})

\* The calls a step starts: a step takes answered calls out of the calls in
\* flight and puts the calls it starts at their end.
StartedCalls ==
    LET taken == IF NumAnswered(calls') < NumAnswered(calls)
                 THEN NumAnswered(calls) - NumAnswered(calls') ELSE 0
        n     == Len(calls') - Len(calls) + taken
    IN  SubSeq(calls', Len(calls') - n + 1, Len(calls'))

\* C11: every call the browser starts carries 'Authorization: Bearer <token>'
\* with the token held when it starts (the login handler sets the token
\* before it starts its calls) and no Authorization header when none is
\* held; when the current user is emptied so is the token, and the two are
\* empty together; a token comes to be held only from the answer of a
\* successful login, so that no call started after logout and before such
\* an answer carries a token.
C11_CallsCarryHeldToken ==
    [][/\ \A k \in 1..Len(StartedCalls) :
             IF authToken' = Null
             THEN ~Has(StartedCalls[k].headers, "authorization")
             ELSE /\ Has(StartedCalls[k].headers, "authorization")
                  /\ StartedCalls[k].headers.authorization = <<"Bearer", authToken'>>
       /\ (currentUser # Null /\ currentUser' = Null) => authToken' = Null
       /\ (authToken' = Null) <=> (currentUser' = Null)
       /\ (authToken' # authToken /\ authToken' # Null) =>
             \E c \in 1..Len(calls) :
                 /\ calls[c].endpoint = "/login" /\ calls[c].state = "answered"
                 /\ Ok(calls[c].status)
                 /\ authToken' = calls[c].body.token
                 /\ currentUser' = calls[c].body.user
      ]_vars

\* C11's case: calls started with a token are still in flight, the visitor
\* has logged out, and a call started after that is in flight with no
\* Authorization header.
C11_Witness ==
    /\ authToken = Null /\ currentUser = Null
    /\ \E j, k \in 1..Len(calls) :
          /\ j < k
          /\ Has(calls[j].headers, "authorization")
          /\ ~Has(calls[k].headers, "authorization")

\* C13 (as claimed): whenever the dashboard on the page changes, it is
\* written from the answers of two calls of one loadDashboardData that were
\* sent with a token of the account that is the current user at that
\* moment; so the answers of calls sent for an account that has logged out
\* are never rendered, another account having logged in or not.
C13_RenderedForCurrentUser ==
    [][rendered' # rendered =>
          \E c \in 1..(Len(calls) - 1) :
              /\ calls' = Settled({c, c + 1})
              /\ calls[c].then = "loadDashboardData"
              /\ calls[c + 1].then = "loadDashboardData"
              /\ currentUser # Null
              /\ \A k \in {c, c + 1} :
                    /\ Presented(calls[k].headers) # {}
                    /\ \A tok \in Presented(calls[k].headers) :
                          tok.userId = currentUser.id
      ]_vars
=============================================================================
